---- MODULE Spec2Model ----
(***************************************************************************)
(* Model of lambda/auth.go: authenticate(req), the request authentication *)
(* middleware of scaleway-functions-go.  One check of one request is a     *)
(* straight-line run through the stages of authenticate; the environment   *)
(* variables and the request are fixed for the run.                        *)
(***************************************************************************)
EXTENDS Naturals, Sequences, FiniteSets

VARIABLES
    env,               \* the process environment read through os.Getenv
    req,               \* the incoming request: its SCW_FUNCTIONS_TOKEN header
    pc,                \* position in authenticate
    err,               \* the named result (err error)
    executed,          \* the stages entered so far, in order
    requestToken,      \* local requestToken
    parsedKey,         \* local parsedKey
    claims,            \* local claims (jwt.MapClaims)
    parsedClaims,      \* local parsedClaims ([]ApplicationClaim)
    applicationClaims, \* local applicationClaims (parsedClaims[0])
    applicationID,     \* local applicationID
    namespaceID        \* local namespaceID

vars == <<env, req, pc, err, executed, requestToken, parsedKey, claims,
          parsedClaims, applicationClaims, applicationID, namespaceID>>

----------------------------------------------------------------------------
(* Bounds *)

\* longest application_claim array carried by a token
MaxClaims == 2

----------------------------------------------------------------------------
(* Error values *)

nil == "nil"

errorInvalidClaims == "Invalid Claims"
errorInvalidPublicKey == "Invalid public key"
errorEmptyRequestToken == "Authentication token was not provided in the request"
errorInvalidApplication == "Application ID was not provided"
errorInvalidNamespace == "Namespace ID was not provided"

\* the error values the package declares
PackageErrors ==
    {errorInvalidClaims, errorInvalidPublicKey, errorEmptyRequestToken,
     errorInvalidApplication, errorInvalidNamespace}

\* errors built by the libraries authenticate calls
jwtValidationError == "*jwt.ValidationError"
jsonUnmarshalTypeError == "*json.UnmarshalTypeError"

LibraryErrors == {jwtValidationError, jsonUnmarshalTypeError}

----------------------------------------------------------------------------
(* Keys: the text of SCW_PUBLIC_KEY *)

KeyIds == {"K1", "K2"}

NoKey == "no key"

\* text: "" | text holding no PEM block | a PEM block;
\* der: what the block's bytes encode; id: the RSA key they encode
EmptyKeyText == [text |-> "empty", der |-> "none", id |-> NoKey]
GarbageKeyText == [text |-> "noblock", der |-> "none", id |-> NoKey]
PemKeyText(der, id) == [text |-> "pem", der |-> der, id |-> id]

KeyTexts ==
    {EmptyKeyText, GarbageKeyText, PemKeyText("pkix", "K1")}
        \cup {PemKeyText("pkcs1", k) : k \in KeyIds}

\* pem.Decode: the first block of the text, or nil
NoBlock == [der |-> "none", id |-> NoKey]
pemDecode(text) ==
    IF text.text = "pem" THEN [der |-> text.der, id |-> text.id] ELSE NoBlock

\* x509.ParsePKCS1PublicKey: the key, or an error for any other encoding
ParsePKCS1PublicKey(block) ==
    IF block.der = "pkcs1"
    THEN [key |-> block.id, err |-> nil]
    ELSE [key |-> NoKey, err |-> "x509 error"]

----------------------------------------------------------------------------
(* JSON values of the application_claim field *)

\* a field of an entry: a JSON string, a JSON number, or no such key
JString(s) == [t |-> "string", v |-> s]
JNumber == [t |-> "number", v |-> "7"]
JAbsent == [t |-> "absent", v |-> ""]

\* an element of the array: an object with the two fields, a bare string,
\* or null
JEntry(ns, app) == [t |-> "object", namespace_id |-> ns, application_id |-> app]
JBareString == [t |-> "string", namespace_id |-> JAbsent, application_id |-> JAbsent]
JNullElem == [t |-> "null", namespace_id |-> JAbsent, application_id |-> JAbsent]

ClaimEntries ==
    {JEntry(JString(ns), JString(app)) :
        ns \in {"ns-1", "ns-2"}, app \in {"app-1", "app-9"}}
    \cup {JEntry(JString(""), JString("")),
          JEntry(JNumber, JString("app-1")),
          JEntry(JString("ns-1"), JAbsent),
          JBareString,
          JNullElem}

SeqsUpTo(S, n) == UNION {[1..k -> S] : k \in 0..n}

\* a decoded JSON value as the token parser stores it in the MapClaims
GoNil == [k |-> "nil", elems |-> <<>>]
GoScalar(k) == [k |-> k, elems |-> <<>>]
GoSlice(es) == [k |-> "slice", elems |-> es]

ClaimValues ==
    {GoNil, GoScalar("string"), GoScalar("float64"), GoScalar("map")}
        \cup {GoSlice(es) : es \in SeqsUpTo(ClaimEntries, MaxClaims)}

\* the MapClaims: the application_claim key may be missing
NoClaimField == [present |-> FALSE, value |-> GoNil]
ClaimField(v) == [present |-> TRUE, value |-> v]
ClaimMaps == {NoClaimField} \cup {ClaimField(v) : v \in ClaimValues}

\* claims["application_claim"]: the zero value (nil) for a missing key
MapIndex(m) == IF m.present THEN m.value ELSE GoNil

\* json.Marshal of a decoded JSON value: its JSON text, as a syntax tree
jsonMarshal(v) ==
    CASE v.k = "nil" -> [t |-> "null", elems |-> <<>>]
      [] v.k = "string" -> [t |-> "string", elems |-> <<>>]
      [] v.k = "float64" -> [t |-> "number", elems |-> <<>>]
      [] v.k = "map" -> [t |-> "object", elems |-> <<>>]
      [] v.k = "slice" -> [t |-> "array", elems |-> v.elems]

\* decoding one JSON value into a string field of ApplicationClaim
FieldOk(f) == f.t \in {"string", "absent", "null"}
FieldValue(f) == IF f.t = "string" THEN f.v ELSE ""

\* decoding one array element into an ApplicationClaim
ElemOk(e) ==
    \/ e.t = "null"
    \/ e.t = "object" /\ FieldOk(e.namespace_id) /\ FieldOk(e.application_id)
ElemValue(e) ==
    IF e.t = "object"
    THEN [NamespaceID |-> FieldValue(e.namespace_id),
          ApplicationID |-> FieldValue(e.application_id)]
    ELSE [NamespaceID |-> "", ApplicationID |-> ""]

\* json.Unmarshal(text, &parsedClaims) with parsedClaims an empty slice
jsonUnmarshal(j) ==
    CASE j.t = "null" -> [out |-> <<>>, err |-> nil]
      [] j.t = "array" ->
            [out |-> [i \in 1..Len(j.elems) |-> ElemValue(j.elems[i])],
             err |-> IF \A i \in 1..Len(j.elems) : ElemOk(j.elems[i])
                     THEN nil ELSE jsonUnmarshalTypeError]
      [] OTHER -> [out |-> <<>>, err |-> jsonUnmarshalTypeError]

----------------------------------------------------------------------------
(* Tokens: the text of the SCW_FUNCTIONS_TOKEN header *)

\* segments: the dot-separated parts; alg: the header's alg; signer: the
\* key pair that signed; exp, nbf, iat: absent, or before or after the
\* present
Token(seg, alg, signer, exp, nbf, iat, cl) ==
    [segments |-> seg, alg |-> alg, signer |-> signer, exp |-> exp,
     nbf |-> nbf, iat |-> iat, claims |-> cl]

EmptyString ==
    Token(0, "none", NoKey, "absent", "absent", "absent", NoClaimField)
MalformedToken ==
    Token(2, "none", NoKey, "absent", "absent", "absent", NoClaimField)

\* <<exp, nbf, iat>>: no bounds, all respected, expired, not yet valid,
\* issued in the future
TokenTimes ==
    {<<"absent", "absent", "absent">>, <<"future", "past", "past">>,
     <<"past", "absent", "absent">>, <<"future", "future", "absent">>,
     <<"absent", "absent", "future">>}

\* the signing methods the token library verifies with an RSA public key
RSAMethods == {"RS256", "RS384", "RS512", "PS256", "PS384", "PS512"}

\* the alg values the tokens of the model carry
TokenAlgs == {"RS256", "RS384", "PS256", "HS256"}

SignedTokens ==
    {Token(3, a, s, tm[1], tm[2], tm[3], c) :
        a \in TokenAlgs, s \in KeyIds, tm \in TokenTimes, c \in ClaimMaps}

Tokens == {EmptyString, MalformedToken} \cup SignedTokens

\* jwt.ParseWithClaims(requestToken, claims, keyfunc returning parsedKey)
ExpValid(t) == t.exp # "past"
NbfValid(t) == t.nbf # "future"
IatValid(t) == t.iat # "future"
SignatureValid(t, key) == t.alg \in RSAMethods /\ t.signer = key
ParseWithClaims(t, key) ==
    IF t.segments # 3
    THEN [claims |-> NoClaimField, err |-> jwtValidationError]
    ELSE [claims |-> t.claims,
          err |-> IF /\ ExpValid(t) /\ IatValid(t) /\ NbfValid(t)
                     /\ SignatureValid(t, key)
                  THEN nil ELSE jwtValidationError]

----------------------------------------------------------------------------
(* The request and the environment *)

\* req: a nil pointer, or a request without or with the header
NilRequest == [nilptr |-> TRUE, present |-> FALSE, value |-> EmptyString]
NoHeader == [nilptr |-> FALSE, present |-> FALSE, value |-> EmptyString]
Header(t) == [nilptr |-> FALSE, present |-> TRUE, value |-> t]

\* req.Header.Get: "" when the request has no such header
HeaderGet(h) == IF h.present THEN h.value ELSE EmptyString

Requests == {NilRequest, NoHeader} \cup {Header(t) : t \in Tokens}

Environments ==
    [SCW_PUBLIC : {"true", "false"},
     SCW_PUBLIC_KEY : KeyTexts,
     SCW_APPLICATION_ID : {"", "app-1"},
     SCW_NAMESPACE_ID : {"", "ns-1"}]

Getenv(name) == env[name]

NoClaim == [NamespaceID |-> "", ApplicationID |-> ""]

Stages ==
    <<"PublicCheck", "TokenPresence", "KeyLoad", "Verify", "ExtractClaims",
      "ResolveIdentity", "Match">>

Init ==
    /\ env \in Environments
    /\ req \in Requests
    /\ pc = "PublicCheck"
    /\ err = nil
    /\ executed = <<>>
    /\ requestToken = EmptyString
    /\ parsedKey = NoKey
    /\ claims = NoClaimField
    /\ parsedClaims = <<>>
    /\ applicationClaims = NoClaim
    /\ applicationID = ""
    /\ namespaceID = ""

----------------------------------------------------------------------------
(* The stages of authenticate *)

\* return: the check ends with the given error value
Return(e) == pc' = "done" /\ err' = e

Enter(stage) == pc = stage /\ executed' = Append(executed, stage)

IsPublic(isPublicFunction) == isPublicFunction = "true"

\* mutant: the public flag is read but the check goes on to the token
PublicCheckNoReturn ==
    /\ Enter("PublicCheck")
    /\ pc' = "TokenPresence"
    /\ UNCHANGED <<env, req, err, requestToken, parsedKey, claims, parsedClaims,
                   applicationClaims, applicationID, namespaceID>>

PublicCheck ==
    /\ Enter("PublicCheck")
    /\ IF IsPublic(Getenv("SCW_PUBLIC"))
       THEN Return(err)
       ELSE pc' = "TokenPresence" /\ UNCHANGED err
    /\ UNCHANGED <<env, req, requestToken, parsedKey, claims, parsedClaims,
                   applicationClaims, applicationID, namespaceID>>

\* mutant: only a request without the header counts as carrying no token
TokenMissingAbsentOnly(token) == ~req.present

TokenMissing(token) == token = EmptyString

\* req.Header on a nil req: the goroutine panics, no value is returned
TokenPresence ==
    /\ Enter("TokenPresence")
    /\ IF req.nilptr
       THEN pc' = "panic" /\ UNCHANGED <<err, requestToken>>
       ELSE /\ requestToken' = HeaderGet(req)
            /\ IF TokenMissing(requestToken')
               THEN Return(errorEmptyRequestToken)
               ELSE pc' = "KeyLoad" /\ UNCHANGED err
    /\ UNCHANGED <<env, req, parsedKey, claims, parsedClaims,
                   applicationClaims, applicationID, namespaceID>>

\* the key that lines 58-76 load from the text, or the error they return
LoadKey(publicKey) ==
    IF publicKey = EmptyKeyText
    THEN [key |-> NoKey, err |-> errorInvalidPublicKey]
    ELSE LET block == pemDecode(publicKey) IN
         IF block = NoBlock
         THEN [key |-> NoKey, err |-> errorInvalidPublicKey]
         ELSE LET r == ParsePKCS1PublicKey(block) IN
              IF r.err # nil \/ r.key = NoKey
              THEN [key |-> NoKey, err |-> errorInvalidPublicKey]
              ELSE [key |-> r.key, err |-> nil]

KeyLoad ==
    /\ Enter("KeyLoad")
    /\ LET r == LoadKey(Getenv("SCW_PUBLIC_KEY")) IN
         /\ parsedKey' = r.key
         /\ IF r.err # nil
            THEN Return(r.err)
            ELSE pc' = "Verify" /\ UNCHANGED err
    /\ UNCHANGED <<env, req, requestToken, claims, parsedClaims,
                   applicationClaims, applicationID, namespaceID>>

Verify ==
    /\ Enter("Verify")
    /\ LET r == ParseWithClaims(requestToken, parsedKey) IN
         /\ claims' = r.claims
         /\ IF r.err # nil
            THEN Return(r.err)
            ELSE pc' = "ExtractClaims" /\ UNCHANGED err
    /\ UNCHANGED <<env, req, requestToken, parsedKey, parsedClaims,
                   applicationClaims, applicationID, namespaceID>>

\* mutant: an empty claim list is read as one claim with no restriction
DecodeClaimsEmptyAsZero(m) ==
    LET r == jsonUnmarshal(jsonMarshal(MapIndex(m))) IN
    IF r.err # nil
    THEN r
    ELSE IF Len(r.out) = 0
         THEN [out |-> <<NoClaim>>, err |-> nil]
         ELSE r

\* lines 88-101: the decoded claim sequence, or the error returned
DecodeClaims(m) ==
    LET r == jsonUnmarshal(jsonMarshal(MapIndex(m))) IN
    IF r.err # nil
    THEN r
    ELSE IF Len(r.out) = 0
         THEN [out |-> r.out, err |-> errorInvalidClaims]
         ELSE r

ExtractClaims ==
    /\ Enter("ExtractClaims")
    /\ LET r == DecodeClaims(claims) IN
         /\ parsedClaims' = r.out
         /\ IF r.err # nil
            THEN Return(r.err) /\ UNCHANGED applicationClaims
            ELSE /\ applicationClaims' = r.out[1]
                 /\ pc' = "ResolveIdentity"
                 /\ UNCHANGED err
    /\ UNCHANGED <<env, req, requestToken, parsedKey, claims, applicationID,
                   namespaceID>>

\* mutant: the namespace identifier is tested before the application's
IdentityErrorNamespaceFirst(appID, nsID) ==
    IF nsID = "" THEN errorInvalidNamespace
    ELSE IF appID = "" THEN errorInvalidApplication
    ELSE nil

\* mutant: the namespace identifier is never tested
IdentityErrorNoNamespace(appID, nsID) ==
    IF appID = "" THEN errorInvalidApplication ELSE nil

\* lines 106-112: the error for an unset identifier, applicationID first
IdentityError(appID, nsID) ==
    IF appID = "" THEN errorInvalidApplication
    ELSE IF nsID = "" THEN errorInvalidNamespace
    ELSE nil

ResolveIdentity ==
    /\ Enter("ResolveIdentity")
    /\ applicationID' = Getenv("SCW_APPLICATION_ID")
    /\ namespaceID' = Getenv("SCW_NAMESPACE_ID")
    /\ LET e == IdentityError(applicationID', namespaceID') IN
         IF e # nil
         THEN Return(e)
         ELSE pc' = "Match" /\ UNCHANGED err
    /\ UNCHANGED <<env, req, requestToken, parsedKey, claims, parsedClaims,
                   applicationClaims>>

\* mutant: a claim must authorise both the namespace and the application
ClaimsMismatchEither(claim, appID, nsID) ==
    claim.NamespaceID # nsID \/ claim.ApplicationID # appID

\* line 115: the claim authorises neither the namespace nor the application
ClaimsMismatch(claim, appID, nsID) ==
    claim.NamespaceID # nsID /\ claim.ApplicationID # appID

Match ==
    /\ Enter("Match")
    /\ IF ClaimsMismatch(applicationClaims, applicationID, namespaceID)
       THEN Return(errorInvalidClaims)
       ELSE Return(err)
    /\ UNCHANGED <<env, req, requestToken, parsedKey, claims, parsedClaims,
                   applicationClaims, applicationID, namespaceID>>

Next ==
    \/ PublicCheck
    \/ TokenPresence
    \/ KeyLoad
    \/ Verify
    \/ ExtractClaims
    \/ ResolveIdentity
    \/ Match

Spec == Init /\ [][Next]_vars

----------------------------------------------------------------------------
(* Properties of one check *)

Done == pc = "done"
Ran(stage) == \E i \in DOMAIN executed : executed[i] = stage
StoppedAt(stage) ==
    Done /\ Len(executed) > 0 /\ executed[Len(executed)] = stage
Public == env.SCW_PUBLIC = "true"

\* the inputs of the check, read off the request and the environment
TokenSent == IF req.present THEN req.value ELSE EmptyString
KeyConfigured == env.SCW_PUBLIC_KEY
KeyUsable == KeyConfigured.text = "pem" /\ KeyConfigured.der = "pkcs1"
TokenVerifies ==
    /\ TokenSent.segments = 3
    /\ TokenSent.alg \in {"RS256", "RS384", "RS512", "PS256", "PS384", "PS512"}
    /\ TokenSent.signer = KeyConfigured.id
    /\ TokenSent.exp \in {"absent", "future"}
    /\ TokenSent.nbf \in {"absent", "past"}
    /\ TokenSent.iat \in {"absent", "past"}
ClaimFieldSent == TokenSent.claims
ClaimFieldEmpty ==
    \/ ~ClaimFieldSent.present
    \/ ClaimFieldSent.value.k = "nil"
    \/ ClaimFieldSent.value.k = "slice" /\ Len(ClaimFieldSent.value.elems) = 0
ElemWellTyped(e) ==
    \/ e.t = "null"
    \/ /\ e.t = "object"
       /\ e.namespace_id.t # "number"
       /\ e.application_id.t # "number"
ClaimFieldDecodable ==
    \/ ~ClaimFieldSent.present
    \/ ClaimFieldSent.value.k = "nil"
    \/ /\ ClaimFieldSent.value.k = "slice"
       /\ \A i \in DOMAIN ClaimFieldSent.value.elems :
            ElemWellTyped(ClaimFieldSent.value.elems[i])
FirstClaimMatches ==
    \/ parsedClaims[1].NamespaceID = env.SCW_NAMESPACE_ID
    \/ parsedClaims[1].ApplicationID = env.SCW_APPLICATION_ID

\* C1: on a public runtime (SCW_PUBLIC = "true") the check ends in success
\* whatever the token, key and identifiers are, and no stage after the
\* public check is ever entered.
C1_PublicAlwaysAllowed ==
    Public =>
        /\ pc \in {"PublicCheck", "done"}
        /\ \A i \in DOMAIN executed : executed[i] = "PublicCheck"
        /\ Done => err = nil
        /\ requestToken = EmptyString /\ parsedKey = NoKey

C1_Witness ==
    /\ Done /\ Public /\ err = nil
    /\ TokenSent = MalformedToken
    /\ KeyConfigured = GarbageKeyText
    /\ env.SCW_APPLICATION_ID = ""

\* C2: on a non-public runtime a request whose token header is absent or
\* empty ends with errorEmptyRequestToken, and the key load and the token
\* verification are never entered, whatever the configured key is.
C2_NoTokenBeforeKeyLoad ==
    (~Public /\ ~req.nilptr /\ (~req.present \/ req.value = EmptyString)) =>
        /\ ~Ran("KeyLoad") /\ ~Ran("Verify")
        /\ parsedKey = NoKey
        /\ pc \in {"PublicCheck", "TokenPresence", "done"}
        /\ Done => err = errorEmptyRequestToken

C2_Witness ==
    /\ Done /\ ~Public
    /\ ~req.nilptr /\ req.present /\ req.value = EmptyString
    /\ KeyConfigured = GarbageKeyText
    /\ err = errorEmptyRequestToken

\* C3: a check that stops at the Verify stage (token malformed, signed
\* with another key, expired or not yet valid) ends with a named error
\* of the package that carries no library error value, and no later
\* stage is entered.
C3_VerifyFailureIsNamedKind ==
    StoppedAt("Verify") =>
        /\ err \in PackageErrors
        /\ err \notin LibraryErrors
        /\ ~Ran("ExtractClaims") /\ ~Ran("ResolveIdentity") /\ ~Ran("Match")

\* C4: a check that reaches ExtractClaims with a verified token whose
\* application_claim field is present but does not decode as a sequence
\* of ApplicationClaim ends with errorInvalidClaims, not a decoder error.
C4_UndecodableClaimsAreInvalidClaims ==
    (Done /\ Ran("ExtractClaims") /\ ClaimFieldSent.present
          /\ ~ClaimFieldDecodable) =>
        err = errorInvalidClaims

\* C5: a check that reaches ExtractClaims with a verified token whose
\* application_claim field is missing or decodes to an empty sequence ends
\* there with errorInvalidClaims, never in success, whatever the runtime
\* identifiers are.
C5_EmptyClaimsAreInvalid ==
    (Ran("ExtractClaims") /\ ClaimFieldEmpty) =>
        /\ ~Ran("ResolveIdentity") /\ ~Ran("Match")
        /\ Done => (err = errorInvalidClaims /\ StoppedAt("ExtractClaims"))

C5_Witness ==
    /\ StoppedAt("ExtractClaims")
    /\ ~ClaimFieldSent.present
    /\ env.SCW_APPLICATION_ID = ""
    /\ err = errorInvalidClaims

\* C6: a check that reaches Match succeeds if and only if the first claim
\* entry's NamespaceID equals the runtime namespace or its ApplicationID
\* equals the runtime application; later entries do not count.
C6_FirstClaimOrMatch ==
    StoppedAt("Match") =>
        /\ applicationClaims = parsedClaims[1]
        /\ (err = nil) <=> FirstClaimMatches

C6_Witness ==
    /\ StoppedAt("Match")
    /\ Len(parsedClaims) = 2
    /\ parsedClaims[1] = [NamespaceID |-> "ns-2", ApplicationID |-> "app-9"]
    /\ parsedClaims[2] = [NamespaceID |-> "ns-1", ApplicationID |-> "app-1"]
    /\ err # nil

\* C7: a check that reaches Match and whose first claim matches neither
\* the namespace nor the application ends with an error value distinct
\* from errorInvalidClaims, the value returned for missing or empty
\* claims, so that the caller can tell the two apart.
C7_MismatchIsDistinctKind ==
    (StoppedAt("Match") /\ ~FirstClaimMatches) =>
        /\ err # nil
        /\ err # errorInvalidClaims

\* the condition under which a stage returns an error, read off the inputs
StageFails(stage) ==
    CASE stage = "PublicCheck" -> FALSE
      [] stage = "TokenPresence" -> TokenSent.segments = 0
      [] stage = "KeyLoad" -> ~KeyUsable
      [] stage = "Verify" -> ~TokenVerifies
      [] stage = "ExtractClaims" -> ClaimFieldEmpty \/ ~ClaimFieldDecodable
      [] stage = "ResolveIdentity" ->
            env.SCW_APPLICATION_ID = "" \/ env.SCW_NAMESPACE_ID = ""
      [] stage = "Match" -> ~FirstClaimMatches

\* C8: the stages are entered in the fixed order PublicCheck, TokenPresence,
\* KeyLoad, Verify, ExtractClaims, ResolveIdentity, Match; a failing check
\* stops at the earliest stage whose condition fails and enters no later
\* stage: an unusable key with an invalid token gives errorInvalidPublicKey,
\* empty claims with an empty application ID give errorInvalidClaims, and an
\* empty application ID with an empty namespace ID gives
\* errorInvalidApplication (errorInvalidNamespace only when the application
\* ID is set).
C8_EarliestFailingStageDecides ==
    /\ Len(executed) <= Len(Stages)
    /\ \A i \in DOMAIN executed : executed[i] = Stages[i]
    /\ (Done /\ ~Public) =>
        LET k == Len(executed) IN
        /\ \A i \in 1..(k - 1) : ~StageFails(Stages[i])
        /\ (err # nil) <=> StageFails(Stages[k])
        /\ (err = nil) => k = Len(Stages)
        /\ (k = 2) => err = errorEmptyRequestToken
        /\ (k >= 3 /\ ~KeyUsable) => err = errorInvalidPublicKey
        /\ (k >= 5 /\ ClaimFieldEmpty) => err = errorInvalidClaims
        /\ (k >= 6 /\ env.SCW_APPLICATION_ID = "") =>
                err = errorInvalidApplication
        /\ (k >= 6 /\ err = errorInvalidNamespace) =>
                (env.SCW_APPLICATION_ID # "" /\ env.SCW_NAMESPACE_ID = "")

C8_Witness ==
    /\ StoppedAt("ResolveIdentity")
    /\ env.SCW_APPLICATION_ID = "" /\ env.SCW_NAMESPACE_ID = ""
    /\ err = errorInvalidApplication

\* C9: a check on a non-public runtime that ends in success compared the
\* claim against a non-empty application ID and a non-empty namespace ID;
\* a runtime with an empty application ID or namespace ID never yields
\* success, also for a claim entry whose own identifier is empty.
C9_NoVacuousMatch ==
    /\ Ran("Match") => (applicationID # "" /\ namespaceID # "")
    /\ (Done /\ ~Public /\ err = nil) =>
        /\ Ran("Match")
        /\ env.SCW_APPLICATION_ID # "" /\ env.SCW_NAMESPACE_ID # ""
        /\ applicationID = env.SCW_APPLICATION_ID
        /\ namespaceID = env.SCW_NAMESPACE_ID

C9_Witness ==
    /\ StoppedAt("ResolveIdentity")
    /\ env.SCW_APPLICATION_ID = "app-1" /\ env.SCW_NAMESPACE_ID = ""
    /\ parsedClaims[1] = [NamespaceID |-> "", ApplicationID |-> ""]
    /\ err = errorInvalidNamespace

\* C10: every finished check carries success (nil) or one of the named
\* error values of the package, never an error value produced by the
\* token or JSON libraries.
C10_VerdictIsNilOrNamedKind ==
    Done => err \in {nil} \cup PackageErrors

====
